---- MODULE Spec2Model ----
(***************************************************************************)
(* Model of the data aggregation layer of lk_flood_api                     *)
(* (src/app/services/github_data.py) and of the /alerts route that         *)
(* consumes it (src/app/routes/alerts.py).                                 *)
(*                                                                         *)
(* Conventions                                                             *)
(*   - an optional value (Python None or a value) is a sequence of length  *)
(*     0 or 1: None == <<>>, Some(v) == <<v>>;                             *)
(*   - a Python str is a sequence of one-character strings, so that        *)
(*     lower(), replace() and the alias lookup act on characters;          *)
(*   - water levels and thresholds are integers (a fixed-point scale of    *)
(*     the metres of the feeds); a flood score is the exact fraction       *)
(*     <<numerator, denominator>> of the float division of the code;       *)
(*   - a Python dict is a function, d.get(k, default) is Get(d, k, default)*)
(***************************************************************************)
EXTENDS Integers, Sequences, FiniteSets, TLC

VARIABLES calc, norm, up, req, cache, now, tasks

vars == <<calc, norm, up, req, cache, now, tasks>>

None == <<>>
Some(v) == <<v>>

Get(d, k, default) == IF k \in DOMAIN d THEN d[k] ELSE default

\* the empty dict
EmptyDict == [k \in {} |-> k]

(***************************************************************************)
(* Bounds of the model.                                                    *)
(***************************************************************************)
LevelBound == 2
MaxNameLen == 2

Levels == (0 - LevelBound)..LevelBound
OptLevels == {None} \cup {Some(l) : l \in Levels}

(***************************************************************************)
(* calculate_alert_status (github_data.py 426-441).  A threshold missing   *)
(* from the station dict defaults to float("inf"), which no finite level   *)
(* reaches: the comparison with it is FALSE.                               *)
(***************************************************************************)
Reaches(water_level, station, key) ==
    /\ key \in DOMAIN station
    /\ water_level >= station[key]

\* the ladder with the minor threshold tested before the major one
AlertStatusMinorFirst(water_level, station) ==
    IF water_level = None THEN "NO_DATA"
    ELSE IF Reaches(water_level[1], station, "minor_flood_level") THEN "MINOR"
    ELSE IF Reaches(water_level[1], station, "major_flood_level") THEN "MAJOR"
    ELSE IF Reaches(water_level[1], station, "alert_level") THEN "ALERT"
    ELSE "NORMAL"

calculate_alert_status(water_level, station) ==
    IF water_level = None THEN "NO_DATA"
    ELSE IF Reaches(water_level[1], station, "major_flood_level") THEN "MAJOR"
    ELSE IF Reaches(water_level[1], station, "minor_flood_level") THEN "MINOR"
    ELSE IF Reaches(water_level[1], station, "alert_level") THEN "ALERT"
    ELSE "NORMAL"

(***************************************************************************)
(* calculate_flood_score (github_data.py 444-455).  The result is None or  *)
(* the fraction (water_level - alert) / (major - alert), kept unreduced    *)
(* with its positive denominator.                                          *)
(***************************************************************************)
calculate_flood_score(water_level, station) ==
    IF water_level = None THEN None
    ELSE LET alert == Get(station, "alert_level", 0)
             major == Get(station, "major_flood_level", 0)
         IN  IF major <= alert THEN None
             ELSE <<water_level[1] - alert, major - alert>>

ThresholdKeys == {"alert_level", "minor_flood_level", "major_flood_level"}

\* Every station dict over a subset of the three threshold keys.
StationDicts == UNION {[ks -> Levels] : ks \in SUBSET ThresholdKeys}

(***************************************************************************)
(* Characters and strings.                                                 *)
(***************************************************************************)
UpperChars == <<"A","B","C","D","E","F","G","H","I","J","K","L","M",
                "N","O","P","Q","R","S","T","U","V","W","X","Y","Z">>
LowerChars == <<"a","b","c","d","e","f","g","h","i","j","k","l","m",
                "n","o","p","q","r","s","t","u","v","w","x","y","z">>

\* str.lower() on one character.
LowerChar(c) ==
    IF \E i \in 1..26 : UpperChars[i] = c
    THEN LowerChars[CHOOSE i \in 1..26 : UpperChars[i] = c]
    ELSE c

\* str.lower()
Lower(s) == [i \in 1..Len(s) |-> LowerChar(s[i])]

\* str.replace(c, "") for a one-character c
Remove(s, c) == SelectSeq(s, LAMBDA x : x # c)

(***************************************************************************)
(* STATION_NAME_MAP (github_data.py 183-196): live-feed spelling ->        *)
(* static spelling.                                                        *)
(***************************************************************************)
NagalagamStreet == <<"N","a","g","a","l","a","g","a","m"," ","S","t","r","e","e","t">>
NStreet == <<"N","'"," ","S","t","r","e","e","t">>
Taldena == <<"T","a","l","d","e","n","a">>

StationNamePairs ==
    { <<NagalagamStreet,
        NStreet>>,
      <<<<"K","i","t","h","u","l","g","a","l","a">>,
        <<"K","i","t","u","l","g","a","l","a">>>>,
      <<<<"R","a","t","h","n","a","p","u","r","a">>,
        <<"R","a","t","n","a","p","u","r","a">>>>,
      <<<<"T","h","a","w","a","l","a","m","a">>,
        <<"T","a","w","a","l","a","m","a">>>>,
      <<<<"T","h","a","n","a","m","a","l","w","i","l","a">>,
        <<"T","a","n","a","m","a","l","w","i","l","a">>>>,
      <<<<"T","h","a","l","d","e","n","a">>,
        Taldena>>,
      <<<<"H","o","r","o","w","p","o","t","h","a","n","a">>,
        <<"H","o","r","o","w","p","a","t","a","n","a">>>>,
      <<<<"Y","a","k","a"," ","W","e","w","a">>,
        <<"Y","a","k","a","w","e","w","a">>>>,
      <<<<"T","h","a","n","t","h","i","r","i","m","a","l","e">>,
        <<"T","a","n","t","i","r","i","m","a","l","e">>>>,
      <<<<"P","a","d","i","y","a","t","h","a","l","a","w","a">>,
        <<"P","a","d","i","y","a","t","a","l","a","w","a">>>>,
      <<<<"M","a","n","a","m","p","i","t","i","y","a">>,
        <<"M","a","n","a","m","p","i","t","i","y","a"," ","(","H","M","I","S",")">>>>,
      <<<<"W","e","r","a","g","a","n","t","h","o","t","a">>,
        <<"W","e","r","a","g","a","n","t","o","t","a">>>> }

STATION_NAME_MAP ==
    [k \in {p[1] : p \in StationNamePairs} |->
        (CHOOSE p \in StationNamePairs : p[1] = k)[2]]

\* the fold without .lower()
FoldNameKeepsCase(s) == Remove(Remove(Remove(Remove(s, "'"), " "), "("), ")")

\* .lower().replace("'", "").replace(" ", "").replace("(", "").replace(")", "")
FoldName(s) == Remove(Remove(Remove(Remove(Lower(s), "'"), " "), "("), ")")

(***************************************************************************)
(* normalize_station_name (github_data.py 199-203): exact lookup in the    *)
(* alias table, then fold.                                                 *)
(***************************************************************************)
\* a normalizer that returns the alias unfolded
NormalizeFoldUnmappedOnly(name) ==
    IF name \in DOMAIN STATION_NAME_MAP THEN STATION_NAME_MAP[name]
    ELSE FoldName(name)

normalize_station_name(name) ==
    LET mapped_name == Get(STATION_NAME_MAP, name, name)
    IN  FoldName(mapped_name)

(***************************************************************************)
(* String helpers: ordering by code point, endswith, replace(sub, ""),     *)
(* split(sep), list.sort(reverse=True).                                    *)
(***************************************************************************)
\* The characters of the model in ascending code-point order.
CodePointOrder ==
    <<" ", "'", "(", ")", "-", ".", ":",
      "0","1","2","3","4","5","6","7","8","9">> \o UpperChars \o LowerChars

CodePoint(c) == CHOOSE i \in 1..Len(CodePointOrder) : CodePointOrder[i] = c

\* a < b for Python str
StrLess(a, b) ==
    \E i \in 1..(Len(a) + 1) :
        /\ \A j \in 1..(i - 1) : j <= Len(b) /\ a[j] = b[j]
        /\ \/ i = Len(a) + 1 /\ Len(b) >= i
           \/ i <= Len(a) /\ i <= Len(b) /\ CodePoint(a[i]) < CodePoint(b[i])

EndsWith(s, suffix) ==
    /\ Len(s) >= Len(suffix)
    /\ SubSeq(s, Len(s) - Len(suffix) + 1, Len(s)) = suffix

RECURSIVE RemoveSub(_, _)
RemoveSub(s, sub) ==
    IF Len(s) < Len(sub) THEN s
    ELSE IF SubSeq(s, 1, Len(sub)) = sub
         THEN RemoveSub(SubSeq(s, Len(sub) + 1, Len(s)), sub)
         ELSE <<s[1]>> \o RemoveSub(Tail(s), sub)

RECURSIVE Split(_, _)
Split(s, sep) ==
    IF \A i \in 1..Len(s) : s[i] # sep THEN <<s>>
    ELSE LET k == CHOOSE i \in 1..Len(s) :
                      s[i] = sep /\ \A j \in 1..(i - 1) : s[j] # sep
         IN  <<SubSeq(s, 1, k - 1)>> \o Split(SubSeq(s, k + 1, Len(s)), sep)

\* an insertion that keeps the list ascending
RECURSIVE InsertAscending(_, _)
InsertAscending(sorted, x) ==
    IF sorted = <<>> THEN <<x>>
    ELSE IF StrLess(x, Head(sorted)) THEN <<x>> \o sorted
         ELSE <<Head(sorted)>> \o InsertAscending(Tail(sorted), x)

RECURSIVE InsertDescending(_, _)
InsertDescending(sorted, x) ==
    IF sorted = <<>> THEN <<x>>
    ELSE IF StrLess(Head(sorted), x) THEN <<x>> \o sorted
         ELSE <<Head(sorted)>> \o InsertDescending(Tail(sorted), x)

RECURSIVE SortDescending(_)
SortDescending(list) ==
    IF list = <<>> THEN <<>>
    ELSE InsertDescending(SortDescending(SubSeq(list, 1, Len(list) - 1)),
                          list[Len(list)])

WaterLevelSuffix == <<"-","w","a","t","e","r","-","l","e","v","e","l",".","j","s","o","n">>

(***************************************************************************)
(* parse_timestamp_from_filename (github_data.py 246-254)                  *)
(***************************************************************************)
parse_timestamp_from_filename(filename) ==
    LET date_part == RemoveSub(filename, WaterLevelSuffix)
        parts == Split(date_part, "-")
    IN  IF Len(parts) >= 5
        THEN parts[1] \o <<"-">> \o parts[2] \o <<"-">> \o parts[3] \o <<" ">>
             \o parts[4] \o <<":">> \o parts[5] \o <<":","0","0">>
        ELSE <<>>

(***************************************************************************)
(* datetime.fromtimestamp(time_ut, tz=LK_TZ).strftime("%Y-%m-%d %H:%M:%S") *)
(* (github_data.py 7, 81) for the epoch seconds of the model, all below    *)
(* one minute: 1970-01-01 05:30:SS in the UTC+5:30 zone.                   *)
(***************************************************************************)
Digits == <<"0","1","2","3","4","5","6","7","8","9">>

FormatLK(time_ut) ==
    <<"1","9","7","0","-","0","1","-","0","1"," ","0","5",":","3","0",":">> \o <<Digits[(time_ut \div 10) + 1], Digits[(time_ut % 10) + 1]>>

(***************************************************************************)
(* Upstream responses.  A response is [kind, body]:                        *)
(*   "ok"              2xx with a JSON body;                               *)
(*   "transport_error" httpx.TransportError (connection refused, DNS...);  *)
(*   "timeout"         httpx.TimeoutException after timeout=30.0;          *)
(*   "http_status"     a non-2xx status (raise_for_status raises           *)
(*                     httpx.HTTPStatusError; a missing artifact is a 404);*)
(*   "not_json"        2xx whose body is not JSON: response.json() raises  *)
(*                     json.JSONDecodeError, which is no httpx.HTTPError.  *)
(* The result of an operation is [raised, value]: raised = TRUE when an    *)
(* exception leaves the operation.                                         *)
(***************************************************************************)
HttpErrorKinds == {"transport_error", "timeout", "http_status"}

Ok(v) == [raised |-> FALSE, value |-> v]
Raised == [raised |-> TRUE, value |-> None]

\* fetch_json (github_data.py 31-39): except httpx.HTTPError only
fetch_json(resp) ==
    IF resp.kind = "ok" THEN Ok(Some(resp.body))
    ELSE IF resp.kind \in HttpErrorKinds THEN Ok(None)
    ELSE Raised

\* fetch_irrigation_json (github_data.py 42-51)
fetch_irrigation_json(resp) ==
    IF resp.kind = "ok" THEN Ok(Some(resp.body))
    ELSE IF resp.kind \in HttpErrorKinds THEN Ok(None)
    ELSE Raised

(***************************************************************************)
(* get_latest_water_level_filename (github_data.py 127-144), the wrapped   *)
(* function: list the directory, keep the names with the water-level       *)
(* suffix, sort descending, take the first.                                *)
(***************************************************************************)
get_latest_water_level_filename(u) ==
    IF u.listing.kind \in HttpErrorKinds THEN Ok(None)
    ELSE IF u.listing.kind = "not_json" THEN Raised
    ELSE LET files == u.listing.body
             json_files == SelectSeq([i \in 1..Len(files) |-> files[i].name],
                                     LAMBDA n : EndsWith(n, WaterLevelSuffix))
         IN  IF json_files = <<>> THEN Ok(None)
             ELSE Ok(Some(SortDescending(json_files)[1]))

(***************************************************************************)
(* get_irrigation_stations_static (54-58), get_stations_static (174-178)   *)
(***************************************************************************)
get_irrigation_stations_static(u) ==
    LET data == fetch_irrigation_json(u.irr_static)
    IN  IF data.raised THEN Raised
        ELSE IF data.value = None THEN Ok(<<>>)
        ELSE Ok(data.value[1])

get_stations_static(u) ==
    LET data == fetch_json(u.dmc_static)
    IN  IF data.raised THEN Raised
        ELSE IF data.value = None THEN Ok(<<>>)
        ELSE Ok(data.value[1])

(***************************************************************************)
(* get_irrigation_latest_levels (github_data.py 61-83): per station the    *)
(* reading with the greatest time_ut, the first of them on a tie.          *)
(***************************************************************************)
DictSet(d, k, v) == [x \in DOMAIN d \cup {k} |-> IF x = k THEN v ELSE d[x]]

LatestEntry(rec) ==
    LET time_ut == Get(rec, "time_ut", 0)
    IN  [water_level |-> Get(rec, "water_level_m", None),
         time_ut |-> time_ut,
         timestamp |-> IF time_ut # 0 THEN FormatLK(time_ut) ELSE <<>>]

RECURSIVE LatestPerStation(_, _)
LatestPerStation(data, latest) ==
    IF data = <<>> THEN latest
    ELSE LET rec == Head(data)
             station == Get(rec, "station_name", <<>>)
             time_ut == Get(rec, "time_ut", 0)
         IN  LatestPerStation(Tail(data),
                 IF /\ station # <<>>
                    /\ \/ station \notin DOMAIN latest
                       \/ time_ut > latest[station].time_ut
                 THEN DictSet(latest, station, LatestEntry(rec))
                 ELSE latest)

get_irrigation_latest_levels(u) ==
    LET data == fetch_irrigation_json(u.irr_latest)
    IN  IF data.raised THEN Raised
        ELSE IF data.value = None \/ data.value[1] = <<>> THEN Ok(EmptyDict)
        ELSE Ok(LatestPerStation(data.value[1], EmptyDict))

(***************************************************************************)
(* Remarks are sequences of words; "Major Flood" in remarks is the search  *)
(* of the words Major, Flood as a contiguous run.                          *)
(***************************************************************************)
Contains(words, pattern) ==
    \E i \in 0..(Len(words) - Len(pattern)) :
        SubSeq(words, i + 1, i + Len(pattern)) = pattern

MajorFloodText == <<"Major", "Flood">>
MinorFloodText == <<"Minor", "Flood">>
AlertText == <<"Alert">>

(***************************************************************************)
(* get_latest_water_levels (github_data.py 257-399), the body after the    *)
(* cache lookup.                                                           *)
(***************************************************************************)
\* lines 289-298: DMC static data keyed by the normalized name, last wins
RECURSIVE StationData(_, _)
StationData(static_stations, station_data) ==
    IF static_stations = <<>> THEN station_data
    ELSE LET s == Head(static_stations)
             normalized == normalize_station_name(Get(s, "name", <<>>))
         IN  StationData(Tail(static_stations),
                 DictSet(station_data, normalized,
                     [lat_lng |-> Get(s, "lat_lng", <<0, 0>>),
                      river_name |-> Get(s, "river_name", ""),
                      alert_level |-> Get(s, "alert_level", 0),
                      minor_flood_level |-> Get(s, "minor_flood_level", 0),
                      major_flood_level |-> Get(s, "major_flood_level", 0)]))

\* lines 302-311: irrigation static data keyed by the raw name, last wins
RECURSIVE IrrigationStationData(_, _)
IrrigationStationData(irrigation_static, irrigation_station_data) ==
    IF irrigation_static = <<>> THEN irrigation_station_data
    ELSE LET s == Head(irrigation_static)
             name == Get(s, "name", <<>>)
         IN  IrrigationStationData(Tail(irrigation_static),
                 DictSet(irrigation_station_data, name,
                     [lat_lng |-> Get(s, "lat_lng", <<0, 0>>),
                      river_name |-> Get(s, "river_name", ""),
                      alert_level |-> Get(s, "alert_level_m", 0),
                      minor_flood_level |-> Get(s, "minor_flood_level_m", 0),
                      major_flood_level |-> Get(s, "major_flood_level_m", 0)]))

\* a merge that takes the fresher reading only when the primary level is null
FreshLevelPrimaryWins(item, irrigation_levels, dmc_timestamp) ==
    LET station_name == Get(item, "gauging_station_name", <<>>)
        dmc_water_level == Get(item, "current_water_level", None)
    IN  IF dmc_water_level = None /\ station_name \in DOMAIN irrigation_levels
        THEN [water_level |-> irrigation_levels[station_name].water_level,
              timestamp |-> irrigation_levels[station_name].timestamp]
        ELSE [water_level |-> dmc_water_level, timestamp |-> dmc_timestamp]

\* lines 324-331: the level and the timestamp of a record
FreshLevel(item, irrigation_levels, dmc_timestamp) ==
    LET station_name == Get(item, "gauging_station_name", <<>>)
        dmc_water_level == Get(item, "current_water_level", None)
    IN  IF /\ station_name \in DOMAIN irrigation_levels
           /\ irrigation_levels[station_name].water_level # None
        THEN [water_level |-> irrigation_levels[station_name].water_level,
              timestamp |-> irrigation_levels[station_name].timestamp]
        ELSE [water_level |-> dmc_water_level, timestamp |-> dmc_timestamp]

\* whole-record precedence: no field of the DMC entry beside an irrigation one
StaticFieldsWholeRecord(station_name, station_data, irrigation_station_data) ==
    LET dmc_static == Get(station_data, normalize_station_name(station_name), EmptyDict)
    IN  IF station_name \in DOMAIN irrigation_station_data
        THEN irrigation_station_data[station_name]
        ELSE [lat_lng |-> Get(dmc_static, "lat_lng", <<0, 0>>),
              river_name |-> Get(dmc_static, "river_name", ""),
              alert_level |-> Get(dmc_static, "alert_level", 0),
              minor_flood_level |-> Get(dmc_static, "minor_flood_level", 0),
              major_flood_level |-> Get(dmc_static, "major_flood_level", 0)]

\* lines 333-350: the static fields of a record
StaticFields(station_name, station_data, irrigation_station_data) ==
    LET normalized_name == normalize_station_name(station_name)
        dmc_static == Get(station_data, normalized_name, EmptyDict)
    IN  IF station_name \in DOMAIN irrigation_station_data
        THEN LET irr_static == irrigation_station_data[station_name]
             IN  [lat_lng |-> irr_static.lat_lng,
                  river_name |-> IF irr_static.river_name # ""
                                 THEN irr_static.river_name
                                 ELSE Get(dmc_static, "river_name", ""),
                  alert_level |-> irr_static.alert_level,
                  minor_flood_level |-> irr_static.minor_flood_level,
                  major_flood_level |-> irr_static.major_flood_level]
        ELSE [lat_lng |-> Get(dmc_static, "lat_lng", <<0, 0>>),
              river_name |-> Get(dmc_static, "river_name", ""),
              alert_level |-> Get(dmc_static, "alert_level", 0),
              minor_flood_level |-> Get(dmc_static, "minor_flood_level", 0),
              major_flood_level |-> Get(dmc_static, "major_flood_level", 0)]

\* lines 352-369.  remarks is None for a JSON null: the substring test then
\* raises TypeError, which is what RemarksRaise says.
RemarksRaise(remarks, water_level, alert_level) ==
    /\ ~(water_level # None /\ alert_level > 0)
    /\ remarks = None

\* the remarks heuristic with the three texts tested in the reverse order
RecordAlertStatusAlertFirst(remarks, water_level, static) ==
    IF water_level # None /\ static.alert_level > 0
    THEN calculate_alert_status(water_level,
             [alert_level |-> static.alert_level,
              minor_flood_level |-> static.minor_flood_level,
              major_flood_level |-> static.major_flood_level])
    ELSE IF Contains(remarks[1], AlertText) THEN "ALERT"
    ELSE IF Contains(remarks[1], MinorFloodText) THEN "MINOR"
    ELSE IF Contains(remarks[1], MajorFloodText) THEN "MAJOR"
    ELSE IF water_level # None THEN "NORMAL"
    ELSE "NO_DATA"

RecordAlertStatus(remarks, water_level, static) ==
    IF water_level # None /\ static.alert_level > 0
    THEN calculate_alert_status(water_level,
             [alert_level |-> static.alert_level,
              minor_flood_level |-> static.minor_flood_level,
              major_flood_level |-> static.major_flood_level])
    ELSE IF Contains(remarks[1], MajorFloodText) THEN "MAJOR"
    ELSE IF Contains(remarks[1], MinorFloodText) THEN "MINOR"
    ELSE IF Contains(remarks[1], AlertText) THEN "ALERT"
    ELSE IF water_level # None THEN "NORMAL"
    ELSE "NO_DATA"

\* the flood score without the guard alert_level > 0
RecordFloodScoreUnguarded(water_level, static) ==
    calculate_flood_score(water_level,
        [alert_level |-> static.alert_level,
         major_flood_level |-> static.major_flood_level])

\* lines 371-375
RecordFloodScore(water_level, static) ==
    IF static.alert_level > 0
    THEN calculate_flood_score(water_level,
             [alert_level |-> static.alert_level,
              major_flood_level |-> static.major_flood_level])
    ELSE None

\* lines 317-396: one iteration of the loop over d_list
MergeItem(item, irrigation_levels, station_data, irrigation_station_data, dmc_timestamp) ==
    LET station_name == Get(item, "gauging_station_name", <<>>)
        fresh == FreshLevel(item, irrigation_levels, dmc_timestamp)
        static == StaticFields(station_name, station_data, irrigation_station_data)
        remarks == Get(item, "remarks", Some(<<>>))
    IN  [station_name |-> station_name,
         river_name |-> static.river_name,
         river_basin_name |-> <<>>,
         lat_lng |-> static.lat_lng,
         water_level |-> fresh.water_level,
         previous_water_level |-> Get(item, "previous_water_level", None),
         alert_level |-> static.alert_level,
         minor_flood_level |-> static.minor_flood_level,
         major_flood_level |-> static.major_flood_level,
         alert_status |-> RecordAlertStatus(remarks, fresh.water_level, static),
         flood_score |-> RecordFloodScore(fresh.water_level, static),
         rising_or_falling |-> Get(item, "rising_or_falling", ""),
         rainfall_mm |-> Get(item, "rainfall_mm", 0),
         remarks |-> remarks,
         timestamp |-> fresh.timestamp]

ItemRaises(item, irrigation_levels, station_data, irrigation_station_data) ==
    LET station_name == Get(item, "gauging_station_name", <<>>)
        fresh == FreshLevel(item, irrigation_levels, <<>>)
        static == StaticFields(station_name, station_data, irrigation_station_data)
    IN  RemarksRaise(Get(item, "remarks", Some(<<>>)), fresh.water_level,
                     static.alert_level)

\* line 285: d_list = data.get("d_list", []) if isinstance(data, dict) else data
DList(data) ==
    IF data.type = "dict"
    THEN (IF "d_list" \in data.keys THEN data.items ELSE <<>>)
    ELSE data.items

\* not data: the empty dict or the empty list
Falsy(data) ==
    IF data.type = "dict" THEN data.keys = {} ELSE data.items = <<>>

\* lines 279-399 without the awaits: the merge of the five inputs
MergeRecords(filename, data, irrigation_levels, static_stations, irrigation_static) ==
    LET dmc_timestamp == parse_timestamp_from_filename(filename)
        d_list == DList(data)
        station_data == StationData(static_stations, EmptyDict)
        irrigation_station_data ==
            IrrigationStationData(irrigation_static, EmptyDict)
    IN  IF \E i \in 1..Len(d_list) :
               ItemRaises(d_list[i], irrigation_levels,
                          station_data, irrigation_station_data)
        THEN Raised
        ELSE Ok([i \in 1..Len(d_list) |->
                   MergeItem(d_list[i], irrigation_levels,
                             station_data, irrigation_station_data,
                             dmc_timestamp)])

\* get_latest_water_levels on a cold cache
get_latest_water_levels(u) ==
    LET filename == get_latest_water_level_filename(u)
    IN  IF filename.raised THEN Raised
        ELSE IF filename.value = None \/ filename.value[1] = <<>> THEN Ok(<<>>)
        ELSE
        LET data == fetch_json(u.file)
        IN  IF data.raised THEN Raised
            ELSE IF data.value = None \/ Falsy(data.value[1]) THEN Ok(<<>>)
            ELSE
            LET irrigation_levels == get_irrigation_latest_levels(u)
                static_stations == get_stations_static(u)
                irrigation_static == get_irrigation_stations_static(u)
            IN  IF irrigation_levels.raised \/ static_stations.raised
                   \/ irrigation_static.raised
                THEN Raised
                ELSE MergeRecords(filename.value[1], data.value[1],
                                  irrigation_levels.value, static_stations.value,
                                  irrigation_static.value)

(***************************************************************************)
(* get_gauging_stations (147-171), get_rivers (206-221) and                *)
(* get_river_basins (224-243), the wrapped functions, over the result of   *)
(* get_latest_water_levels.                                                *)
(***************************************************************************)
RECURSIVE StationsOf(_, _)
StationsOf(levels, stations) ==
    IF levels = <<>> THEN stations
    ELSE LET level == Head(levels)
             name == Get(level, "station_name", <<>>)
         IN  StationsOf(Tail(levels),
                 IF name # <<>> /\ \A i \in 1..Len(stations) : stations[i].name # name
                 THEN Append(stations,
                        [name |-> name,
                         river_name |-> Get(level, "river_name", ""),
                         river_basin_name |-> Get(level, "river_basin_name", <<>>),
                         lat_lng |-> Get(level, "lat_lng", <<0, 0>>),
                         alert_level |-> Get(level, "alert_level", 0),
                         minor_flood_level |-> Get(level, "minor_flood_level", 0),
                         major_flood_level |-> Get(level, "major_flood_level", 0)])
                 ELSE stations)

RECURSIVE RiversOf(_, _)
RiversOf(levels, rivers) ==
    IF levels = <<>> THEN rivers
    ELSE LET level == Head(levels)
             river_name == Get(level, "river_name", "")
         IN  RiversOf(Tail(levels),
                 IF river_name # "" /\ \A i \in 1..Len(rivers) : rivers[i].name # river_name
                 THEN Append(rivers,
                        [name |-> river_name,
                         river_basin_name |-> Get(level, "river_basin_name", <<>>)])
                 ELSE rivers)

\* basin_name.split("(RB ")[1].rstrip(")") when "(RB " is in basin_name
RBMarker == <<"(","R","B"," ">>

RECURSIVE ContainsSub(_, _)
ContainsSub(s, sub) ==
    IF Len(s) < Len(sub) THEN FALSE
    ELSE SubSeq(s, 1, Len(sub)) = sub \/ ContainsSub(Tail(s), sub)

RECURSIVE AfterSub(_, _)
AfterSub(s, sub) ==
    IF SubSeq(s, 1, Len(sub)) = sub THEN SubSeq(s, Len(sub) + 1, Len(s))
    ELSE AfterSub(Tail(s), sub)

RECURSIVE BeforeSub(_, _)
BeforeSub(s, sub) ==
    IF Len(s) < Len(sub) THEN s
    ELSE IF SubSeq(s, 1, Len(sub)) = sub THEN <<>>
    ELSE <<s[1]>> \o BeforeSub(Tail(s), sub)

RECURSIVE RStrip(_, _)
RStrip(s, c) ==
    IF s # <<>> /\ s[Len(s)] = c THEN RStrip(SubSeq(s, 1, Len(s) - 1), c) ELSE s

BasinCode(basin_name) ==
    IF ContainsSub(basin_name, RBMarker)
    THEN RStrip(BeforeSub(AfterSub(basin_name, RBMarker), RBMarker), ")")
    ELSE <<>>

RECURSIVE BasinsOf(_, _)
BasinsOf(levels, basins) ==
    IF levels = <<>> THEN basins
    ELSE LET level == Head(levels)
             basin_name == Get(level, "river_basin_name", <<>>)
         IN  BasinsOf(Tail(levels),
                 IF basin_name # <<>> /\ \A i \in 1..Len(basins) : basins[i].name # basin_name
                 THEN Append(basins, [name |-> basin_name, code |-> BasinCode(basin_name)])
                 ELSE basins)

get_gauging_stations(u) ==
    LET levels == get_latest_water_levels(u)
    IN  IF levels.raised THEN Raised ELSE Ok(StationsOf(levels.value, <<>>))

get_rivers(u) ==
    LET levels == get_latest_water_levels(u)
    IN  IF levels.raised THEN Raised ELSE Ok(RiversOf(levels.value, <<>>))

get_river_basins(u) ==
    LET levels == get_latest_water_levels(u)
    IN  IF levels.raised THEN Raised ELSE Ok(BasinsOf(levels.value, <<>>))

(***************************************************************************)
(* get_active_alerts (routes/alerts.py 8-46).  The route reads each record *)
(* of get_latest_water_levels under the keys gauging_station_name and      *)
(* current_water_level.                                                    *)
(***************************************************************************)
\* line 14: station_map = {s["name"].lower(): s for s in stations}
RECURSIVE StationMap(_, _)
StationMap(stations, station_map) ==
    IF stations = <<>> THEN station_map
    ELSE StationMap(Tail(stations),
                    DictSet(station_map, Lower(Head(stations).name), Head(stations)))

\* lines 17-40, the reading appended for one record, or None
AlertOf(level, station_map) ==
    LET station_name == Get(level, "gauging_station_name", <<>>)
    IN  IF Lower(station_name) \notin DOMAIN station_map THEN None
        ELSE LET station == station_map[Lower(station_name)]
                 water_level == Get(level, "current_water_level", None)
                 alert_status == calculate_alert_status(water_level, station)
             IN  IF alert_status \in {"ALERT", "MINOR", "MAJOR"}
                 THEN Some([station_name |-> station_name,
                            river_name |-> station.river_name,
                            water_level |-> water_level,
                            previous_water_level |-> Get(level, "previous_water_level", None),
                            alert_status |-> alert_status,
                            flood_score |-> calculate_flood_score(water_level, station),
                            timestamp |-> Get(level, "time_str", <<>>)])
                 ELSE None

\* lines 42-44: the stable sort by severity, MAJOR then MINOR then ALERT
SortBySeverity(alerts) ==
    SelectSeq(alerts, LAMBDA a : a.alert_status = "MAJOR")
    \o SelectSeq(alerts, LAMBDA a : a.alert_status = "MINOR")
    \o SelectSeq(alerts, LAMBDA a : a.alert_status = "ALERT")

get_active_alerts(u) ==
    LET levels == get_latest_water_levels(u)
        stations == get_gauging_stations(u)
    IN  IF levels.raised \/ stations.raised THEN Raised
        ELSE LET station_map == StationMap(stations.value, EmptyDict)
                 found == [i \in 1..Len(levels.value) |->
                              AlertOf(levels.value[i], station_map)]
                 alerts == SelectSeq(found, LAMBDA a : a # None)
             IN  Ok(SortBySeverity([i \in 1..Len(alerts) |-> alerts[i][1]]))

(***************************************************************************)
(* The upstream states of the merge model.                                 *)
(***************************************************************************)
MaxItems == 2
MaxReadings == 2
MaxTimeUt == 1

RECURSIVE SeqsUpTo(_, _)
SeqsUpTo(S, n) ==
    IF n = 0 THEN {<<>>}
    ELSE LET shorter == SeqsUpTo(S, n - 1)
         IN  shorter \cup {Append(q, x) : q \in {t \in shorter : Len(t) = n - 1}, x \in S}

File1 == <<"2","0","2","5","-","1","2","-","0","1","-","1","2","-","3","0","-","w","a","t","e","r","-","l","e","v","e","l",".","j","s","o","n">>
File2 == <<"2","0","2","5","-","1","2","-","0","2","-","0","9","-","0","0","-","w","a","t","e","r","-","l","e","v","e","l",".","j","s","o","n">>
Readme == <<"R","E","A","D","M","E",".","m","d">>

PrimaryNames == {NagalagamStreet, Taldena}
ItemLevels == {None, Some(0), Some(LevelBound)}
RemarksSet == {None, Some(<<>>), Some(AlertText), Some(MinorFloodText),
               Some(MajorFloodText \o AlertText)}

PrimaryItems ==
    [gauging_station_name : PrimaryNames, current_water_level : ItemLevels,
     previous_water_level : {None}, remarks : RemarksSet]

IrrNames == {NagalagamStreet, NStreet}
Readings ==
    [station_name : IrrNames, time_ut : 0..MaxTimeUt,
     water_level_m : {None, Some(1)}]

ThresholdTriples == {<<0, 1, 2>>, <<1, 1, 1>>, <<1, 2, 2>>}

DmcStaticEntries ==
    {[name |-> NStreet, lat_lng |-> <<6, 79>>, river_name |-> "Kelani Ganga",
      alert_level |-> t[1], minor_flood_level |-> t[2], major_flood_level |-> t[3]] :
        t \in ThresholdTriples}

IrrStaticEntries ==
    {[name |-> NagalagamStreet, lat_lng |-> <<7, 80>>, river_name |-> r,
      alert_level_m |-> t[1], minor_flood_level_m |-> t[2],
      major_flood_level_m |-> t[3]] : t \in ThresholdTriples, r \in {"", "Kalu Ganga"}}

OkResp(body) == [kind |-> "ok", body |-> body]
FailKinds == HttpErrorKinds \cup {"not_json"}

\* a JSON document that is a dict (keys; items is its d_list) or a list
Document(type, keys, items) == [type |-> type, keys |-> keys, items |-> items]
DictFile(d_list) == OkResp(Document("dict", {"d_list"}, d_list))

ListingOk == OkResp(<<[name |-> File1], [name |-> Readme], [name |-> File2]>>)

World(listing, file, irr_latest, dmc_static, irr_static) ==
    [listing |-> listing, file |-> file, irr_latest |-> irr_latest,
     dmc_static |-> dmc_static, irr_static |-> irr_static]

DLists == SeqsUpTo(PrimaryItems, MaxItems)
ReadingFeeds == SeqsUpTo(Readings, MaxReadings)
DmcStaticFeeds == SeqsUpTo(DmcStaticEntries, 1)
IrrStaticFeeds == SeqsUpTo(IrrStaticEntries, 1)

\* the reference feeds: the DMC static feed knows N' Street, one item of
\* the primary feed, no fresher readings, no irrigation static data
RefDmcStatic ==
    <<[name |-> NStreet, lat_lng |-> <<6, 79>>, river_name |-> "Kelani Ganga",
       alert_level |-> 1, minor_flood_level |-> 2, major_flood_level |-> 2]>>
RefDList == <<[gauging_station_name |-> NagalagamStreet,
               current_water_level |-> Some(LevelBound),
               previous_water_level |-> None, remarks |-> Some(<<>>)]>>
RefWorld == World(ListingOk, DictFile(RefDList), OkResp(<<>>),
                  OkResp(RefDmcStatic), OkResp(<<>>))

DegenerateFiles ==
    {Document("dict", {}, <<>>), Document("list", {}, <<>>),
     Document("list", {}, RefDList), Document("dict", {"message"}, <<>>)}

(***************************************************************************)
(* Inputs of the normalizer: every key and value of the alias table, their *)
(* lower-case spellings, and every string of at most MaxNameLen characters *)
(* over a small alphabet holding each kind of folded character.            *)
(***************************************************************************)
NameAlphabet == {"N", "n", " ", "'", "(", ")"}

RECURSIVE StringsUpTo(_)
StringsUpTo(n) ==
    IF n = 0 THEN {<<>>}
    ELSE LET shorter == StringsUpTo(n - 1)
         IN  shorter \cup {Append(s, c) : s \in shorter, c \in NameAlphabet}

AliasNames == {p[1] : p \in StationNamePairs} \cup {p[2] : p \in StationNamePairs}

NormInputs ==
    AliasNames \cup {Lower(s) : s \in AliasNames} \cup StringsUpTo(MaxNameLen)

\* two names differ only in letter case, spaces, apostrophes, parentheses
Ignored == {" ", "'", "(", ")"}
SameLetters(x, y) ==
    SelectSeq(Lower(x), LAMBDA c : c \notin Ignored)
      = SelectSeq(Lower(y), LAMBDA c : c \notin Ignored)

(***************************************************************************)
(* The calculator under test: Init draws a level and a station dict,       *)
(* Calculate applies both functions.                                       *)
(***************************************************************************)
CalcIdle == [pc |-> "idle", water_level |-> None, station |-> <<>>,
             alert_status |-> "", flood_score |-> None]
NormIdle == [pc |-> "idle", x |-> <<>>, y |-> <<>>, nx |-> <<>>, ny |-> <<>>,
             nnx |-> <<>>]

UpIdle == <<>>
ReqIdle == [pc |-> "idle", op |-> "", raised |-> FALSE, value |-> None]
CacheIdle == EmptyDict
TasksIdle == <<>>

CalcInit ==
    /\ calc \in [pc : {"ready"}, water_level : OptLevels, station : StationDicts,
                 alert_status : {""}, flood_score : {None}]
    /\ norm = NormIdle
    /\ up = UpIdle
    /\ req = ReqIdle
    /\ cache = CacheIdle
    /\ now = 0
    /\ tasks = TasksIdle

Calculate ==
    /\ calc.pc = "ready"
    /\ calc' = [calc EXCEPT
                 !.pc = "done",
                 !.alert_status = calculate_alert_status(calc.water_level, calc.station),
                 !.flood_score = calculate_flood_score(calc.water_level, calc.station)]
    /\ UNCHANGED <<norm, up, req, cache, now, tasks>>

CalcNext == Calculate

SpecCalc == CalcInit /\ [][CalcNext]_vars

(***************************************************************************)
(* The normalizer under test: Init draws two names that differ only in     *)
(* letter case, spaces, apostrophes and parentheses; Normalize applies     *)
(* normalize_station_name to both, and once more to the first result.      *)
(***************************************************************************)
NormInit ==
    /\ calc = CalcIdle
    /\ up = UpIdle
    /\ req = ReqIdle
    /\ cache = CacheIdle
    /\ now = 0
    /\ tasks = TasksIdle
    /\ \E x \in NormInputs : \E y \in NormInputs :
          /\ SameLetters(x, y)
          /\ norm = [NormIdle EXCEPT !.pc = "ready", !.x = x, !.y = y]

Normalize ==
    /\ norm.pc = "ready"
    /\ norm' = [norm EXCEPT
                 !.pc = "done",
                 !.nx = normalize_station_name(norm.x),
                 !.ny = normalize_station_name(norm.y),
                 !.nnx = normalize_station_name(normalize_station_name(norm.x))]
    /\ UNCHANGED <<calc, up, req, cache, now, tasks>>

NormNext == Normalize

SpecNorm == NormInit /\ [][NormNext]_vars

(***************************************************************************)
(* The merge under test: Init draws the upstream state; each action is one *)
(* operation of the core, or the /alerts handler, run to its end on a cold *)
(* cache against that upstream state.                                      *)
(***************************************************************************)
MergeInit ==
    /\ calc = CalcIdle
    /\ norm = NormIdle
    /\ req = ReqIdle
    /\ cache = CacheIdle
    /\ now = 0
    /\ tasks = TasksIdle
    /\ \/ \* every d_list against the reference feeds
          \E d \in DLists :
             up = [RefWorld EXCEPT !.file = DictFile(d)]
       \/ \* every d_list of at most one item against every pair of static feeds
          \E d \in DLists, ds \in DmcStaticFeeds, is \in IrrStaticFeeds :
             /\ Len(d) <= 1
             /\ up = [RefWorld EXCEPT !.file = DictFile(d), !.dmc_static = OkResp(ds),
                                      !.irr_static = OkResp(is)]
       \/ \* every d_list of at most one item with plain remarks against every
          \* feed of fresher readings
          \E d \in DLists, r \in ReadingFeeds :
             /\ Len(d) <= 1
             /\ \A i \in 1..Len(d) : d[i].remarks = Some(<<>>)
             /\ up = [RefWorld EXCEPT !.file = DictFile(d), !.irr_latest = OkResp(r)]
       \/ \E k \in FailKinds :
             up \in {[RefWorld EXCEPT !.listing = [kind |-> k, body |-> <<>>]],
                     [RefWorld EXCEPT !.file = [kind |-> k, body |-> Document("list", {}, <<>>)]],
                     [RefWorld EXCEPT !.irr_latest = [kind |-> k, body |-> <<>>]],
                     [RefWorld EXCEPT !.dmc_static = [kind |-> k, body |-> <<>>]],
                     [RefWorld EXCEPT !.irr_static = [kind |-> k, body |-> <<>>]]}
       \/ \E l \in {<<>>, <<[name |-> Readme]>>} :
             up = [RefWorld EXCEPT !.listing = OkResp(l)]
       \/ \E b \in DegenerateFiles :
             up = [RefWorld EXCEPT !.file = OkResp(b)]

Serve(op, result) ==
    /\ req.pc = "idle"
    /\ req' = [pc |-> "done", op |-> op, raised |-> result.raised,
               value |-> result.value]
    /\ UNCHANGED <<calc, norm, up, cache, now, tasks>>

FetchJson == Serve("fetch_json", fetch_json(up.file))
GetLatestWaterLevelFilename ==
    Serve("get_latest_water_level_filename", get_latest_water_level_filename(up))
GetLatestWaterLevels == Serve("get_latest_water_levels", get_latest_water_levels(up))
GetGaugingStations == Serve("get_gauging_stations", get_gauging_stations(up))
GetRivers == Serve("get_rivers", get_rivers(up))
GetRiverBasins == Serve("get_river_basins", get_river_basins(up))
GetActiveAlerts == Serve("get_active_alerts", get_active_alerts(up))

MergeNext ==
    \/ FetchJson
    \/ GetLatestWaterLevelFilename
    \/ GetLatestWaterLevels
    \/ GetGaugingStations
    \/ GetRivers
    \/ GetRiverBasins
    \/ GetActiveAlerts

SpecMerge == MergeInit /\ [][MergeNext]_vars

(***************************************************************************)
(* The cache and the request handlers (github_data.py 14-28, 257-399).     *)
(*                                                                         *)
(* cache maps each stored key to [value, time], time being the clock at    *)
(* the insertion; TTLCache answers `key in cache` with TRUE while          *)
(* clock < time + ttl, and drops the expired entries at each insertion.    *)
(* maxsize=100 is never reached: the module has nine keys.                 *)
(*                                                                         *)
(* A task is one inbound request running one operation of the core.  The   *)
(* network requests are its only suspension points, so that everything     *)
(* between two of them is one step.  A task records what it did:           *)
(*   reads   the cache lookups, each [key, at, hit, entry, value];         *)
(*   sent    the upstream resources it requested;                          *)
(*   stored  the cache insertions, each [key, value, at];                  *)
(*   levels  what get_latest_water_levels returned inside it.              *)
(* SpecCache and SpecRecover run one task at a time: tasks = <<task>>;     *)
(* SpecRace runs two.                                                      *)
(***************************************************************************)
TTL == 300
ClockStep == 150
MaxTime == 450

LevelsKey == "latest_water_levels"
DirectKeys == {"latest_water_level_file", "irrigation_latest_levels",
               "stations_static", "irrigation_stations_static"}
DerivedKeys == {"gauging_stations", "rivers", "river_basins"}
Ops == {LevelsKey} \cup DerivedKeys

\* the upstream resource behind each directly fetching key
Resource(key) ==
    CASE key = "latest_water_level_file" -> "listing"
      [] key = "irrigation_latest_levels" -> "irr_latest"
      [] key = "stations_static" -> "dmc_static"
      [] key = "irrigation_stations_static" -> "irr_static"
      [] OTHER -> ""

\* an entry that stays valid through the instant time + ttl
CacheHasThroughExpiry(c, key, t) ==
    key \in DOMAIN c /\ t <= c[key].time + TTL

\* key in cache
CacheHas(c, key, t) ==
    key \in DOMAIN c /\ t < c[key].time + TTL

\* cache[key] = value: TTLCache drops the expired entries, then inserts
CacheSet(c, key, value, t) ==
    LET live == {k \in DOMAIN c : t < c[k].time + TTL}
    IN  [k \in live \cup {key} |->
            IF k = key THEN [value |-> value, time |-> t] ELSE c[k]]

TaskIdle ==
    [pc |-> "idle", op |-> "", stage |-> "", filename |-> None, data |-> None,
     irrigation_levels |-> EmptyDict, static_stations |-> <<>>,
     reads |-> <<>>, sent |-> <<>>, stored |-> <<>>,
     levels |-> None, raised |-> FALSE, value |-> <<>>]

\* `if key in cache: return cache[key]` (lines 22-23, 266-268) at time n
Read(t, c, n, key) ==
    [t EXCEPT !.reads = Append(@,
        [key |-> key, at |-> n, hit |-> CacheHas(c, key, n),
         entry |-> IF key \in DOMAIN c THEN Some(c[key]) ELSE None,
         value |-> IF CacheHas(c, key, n) THEN Some(c[key].value) ELSE None])]

LastRead(t) == t.reads[Len(t.reads)]

\* `cache[key] = result` (lines 25, 398) at time n
Store(t, c, n, key, value) ==
    [task |-> [t EXCEPT !.stored = Append(@, [key |-> key, value |-> value, at |-> n])],
     cache |-> CacheSet(c, key, value, n)]

\* `await client.get(...)`: the task is suspended on an upstream request
Suspend(t, c, stage) ==
    [task |-> [t EXCEPT !.pc = "await", !.stage = stage, !.sent = Append(@, stage)],
     cache |-> c]

\* the operation of the task returns, or an exception leaves it
Done(t, c, raised, value) ==
    [task |-> [t EXCEPT !.pc = "done", !.stage = "", !.raised = raised,
                        !.value = value],
     cache |-> c]

\* the bodies of get_gauging_stations, get_rivers, get_river_basins
Derive(op, levels) ==
    CASE op = "gauging_stations" -> StationsOf(levels, <<>>)
      [] op = "rivers" -> RiversOf(levels, <<>>)
      [] op = "river_basins" -> BasinsOf(levels, <<>>)

\* get_latest_water_levels returns `levels` to its caller: the route, or the
\* body of a derived operation, whose wrapper stores the result (lines 24-26)
ReturnLevels(t, c, n, levels) ==
    LET t1 == [t EXCEPT !.levels = Some(levels)]
    IN  IF t.op = LevelsKey THEN Done(t1, c, FALSE, levels)
        ELSE LET result == Derive(t.op, levels)
                 s == Store(t1, c, n, t.op, result)
             IN  Done(s.task, s.cache, FALSE, result)

\* lines 302-399: the last input is at hand; merge, store, return
AfterIrrStatic(t, c, n, irrigation_static) ==
    LET merged == MergeRecords(t.filename[1], t.data[1], t.irrigation_levels,
                               t.static_stations, irrigation_static)
    IN  IF merged.raised THEN Done(t, c, TRUE, <<>>)
        ELSE LET s == Store(t, c, n, LevelsKey, merged.value)
             IN  ReturnLevels(s.task, s.cache, n, merged.value)

\* line 301: irrigation_static = await get_irrigation_stations_static()
EnterIrrStatic(t, c, n) ==
    LET r == Read(t, c, n, "irrigation_stations_static")
    IN  IF LastRead(r).hit THEN AfterIrrStatic(r, c, n, LastRead(r).value[1])
        ELSE Suspend(r, c, "irr_static")

\* line 288: static_stations = await get_stations_static()
AfterDmcStatic(t, c, n, static_stations) ==
    EnterIrrStatic([t EXCEPT !.static_stations = static_stations], c, n)

EnterDmcStatic(t, c, n) ==
    LET r == Read(t, c, n, "stations_static")
    IN  IF LastRead(r).hit THEN AfterDmcStatic(r, c, n, LastRead(r).value[1])
        ELSE Suspend(r, c, "dmc_static")

\* line 282: irrigation_levels = await get_irrigation_latest_levels()
AfterIrrLatest(t, c, n, irrigation_levels) ==
    EnterDmcStatic([t EXCEPT !.irrigation_levels = irrigation_levels], c, n)

EnterIrrLatest(t, c, n) ==
    LET r == Read(t, c, n, "irrigation_latest_levels")
    IN  IF LastRead(r).hit THEN AfterIrrLatest(r, c, n, LastRead(r).value[1])
        ELSE Suspend(r, c, "irr_latest")

\* lines 274-276: data = await fetch_json(...); if not data: return []
AfterFile(t, c, n, data) ==
    LET t1 == [t EXCEPT !.data = data]
    IN  IF data = None \/ Falsy(data[1]) THEN ReturnLevels(t1, c, n, <<>>)
        ELSE EnterIrrLatest(t1, c, n)

\* lines 270-272: filename = await get_latest_water_level_filename();
\* if not filename: return []
AfterFilename(t, c, n, filename) ==
    LET t1 == [t EXCEPT !.filename = filename]
    IN  IF filename = None \/ filename[1] = <<>> THEN ReturnLevels(t1, c, n, <<>>)
        ELSE Suspend(t1, c, "file")

\* a lookup whose result is ignored: the listing is requested on a hit too
EnterFilenameAlways(t, c, n) ==
    Suspend(Read(t, c, n, "latest_water_level_file"), c, "listing")

EnterFilename(t, c, n) ==
    LET r == Read(t, c, n, "latest_water_level_file")
    IN  IF LastRead(r).hit THEN AfterFilename(r, c, n, LastRead(r).value[1])
        ELSE Suspend(r, c, "listing")

\* lines 266-268: the lookup of get_latest_water_levels
EnterLevels(t, c, n) ==
    LET r == Read(t, c, n, LevelsKey)
    IN  IF LastRead(r).hit THEN ReturnLevels(r, c, n, LastRead(r).value[1])
        ELSE EnterFilename(r, c, n)

\* the request begins: the wrapper of a derived operation (lines 21-24), or
\* get_latest_water_levels itself
EnterOp(t, c, n) ==
    IF t.op = LevelsKey THEN EnterLevels(t, c, n)
    ELSE LET r == Read(t, c, n, t.op)
         IN  IF LastRead(r).hit THEN Done(r, c, FALSE, LastRead(r).value[1])
             ELSE EnterLevels(r, c, n)

\* the response to the request of a suspended task arrives from upstream u
OnResponse(t, c, n, u) ==
    CASE t.stage = "listing" ->
           LET result == get_latest_water_level_filename(u)
           IN  IF result.raised THEN Done(t, c, TRUE, <<>>)
               ELSE LET s == Store(t, c, n, "latest_water_level_file", result.value)
                    IN  AfterFilename(s.task, s.cache, n, result.value)
      [] t.stage = "file" ->
           LET result == fetch_json(u.file)
           IN  IF result.raised THEN Done(t, c, TRUE, <<>>)
               ELSE AfterFile(t, c, n, result.value)
      [] t.stage = "irr_latest" ->
           LET result == get_irrigation_latest_levels(u)
           IN  IF result.raised THEN Done(t, c, TRUE, <<>>)
               ELSE LET s == Store(t, c, n, "irrigation_latest_levels", result.value)
                    IN  AfterIrrLatest(s.task, s.cache, n, result.value)
      [] t.stage = "dmc_static" ->
           LET result == get_stations_static(u)
           IN  IF result.raised THEN Done(t, c, TRUE, <<>>)
               ELSE LET s == Store(t, c, n, "stations_static", result.value)
                    IN  AfterDmcStatic(s.task, s.cache, n, result.value)
      [] t.stage = "irr_static" ->
           LET result == get_irrigation_stations_static(u)
           IN  IF result.raised THEN Done(t, c, TRUE, <<>>)
               ELSE LET s == Store(t, c, n, "irrigation_stations_static", result.value)
                    IN  AfterIrrStatic(s.task, s.cache, n, result.value)

(***************************************************************************)
(* The upstream states of the cache model: the reference feeds, the same   *)
(* with a new primary file, and the reference feeds with one resource      *)
(* down or garbled.                                                        *)
(***************************************************************************)
NewDList == <<[gauging_station_name |-> NagalagamStreet,
               current_water_level |-> Some(0),
               previous_water_level |-> Some(LevelBound), remarks |-> Some(<<>>)]>>

CacheWorlds ==
    {RefWorld,
     [RefWorld EXCEPT !.file = DictFile(NewDList)],
     [RefWorld EXCEPT !.listing = [kind |-> "http_status", body |-> <<>>]],
     [RefWorld EXCEPT !.file = [kind |-> "timeout", body |-> Document("list", {}, <<>>)]],
     [RefWorld EXCEPT !.file = [kind |-> "not_json", body |-> Document("list", {}, <<>>)]]}

CacheInit ==
    /\ calc = CalcIdle
    /\ norm = NormIdle
    /\ req = ReqIdle
    /\ up \in CacheWorlds
    /\ cache = EmptyDict
    /\ now = 0
    /\ tasks = <<TaskIdle>>

\* an inbound request starts an operation of the core
Begin ==
    \E i \in DOMAIN tasks, op \in Ops :
       /\ tasks[i].pc = "idle"
       /\ \A j \in 1..(i - 1) : tasks[j].pc # "idle"
       /\ LET r == EnterOp([TaskIdle EXCEPT !.op = op], cache, now)
          IN  /\ tasks' = [tasks EXCEPT ![i] = r.task]
              /\ cache' = r.cache
       /\ UNCHANGED <<calc, norm, up, req, now>>

\* the upstream answers the request a task is suspended on
Resume ==
    \E i \in DOMAIN tasks :
       /\ tasks[i].pc = "await"
       /\ LET r == OnResponse(tasks[i], cache, now, up)
          IN  /\ tasks' = [tasks EXCEPT ![i] = r.task]
              /\ cache' = r.cache
       /\ UNCHANGED <<calc, norm, up, req, now>>

\* the response of a finished operation leaves the process
Respond ==
    \E i \in DOMAIN tasks :
       /\ tasks[i].pc = "done"
       /\ tasks' = [tasks EXCEPT ![i] = TaskIdle]
       /\ UNCHANGED <<calc, norm, up, req, cache, now>>

\* the clock of the cache advances
Tick ==
    /\ now + ClockStep <= MaxTime
    /\ now' = now + ClockStep
    /\ UNCHANGED <<calc, norm, up, req, cache, tasks>>

\* the upstream repositories change, or a resource goes down or comes back
UpstreamChange ==
    /\ up' \in CacheWorlds \ {up}
    /\ UNCHANGED <<calc, norm, req, cache, now, tasks>>

CacheNext ==
    \/ Begin
    \/ Resume
    \/ Respond
    \/ Tick
    \/ UpstreamChange

SpecCache == CacheInit /\ [][CacheNext]_vars

(***************************************************************************)
(* The cache model under outages: the upstream starts with the reference   *)
(* feeds or with one cached resource down, comes back (Recover), and then  *)
(* publishes a primary file with one more station (Publish).               *)
(***************************************************************************)
Down(kind) == [kind |-> kind, body |-> <<>>]

DownWorlds ==
    {[RefWorld EXCEPT !.listing = Down("http_status")],
     [RefWorld EXCEPT !.irr_latest = Down("timeout")],
     [RefWorld EXCEPT !.dmc_static = Down("transport_error")],
     [RefWorld EXCEPT !.irr_static = Down("http_status")]}

TwoStationWorld ==
    [RefWorld EXCEPT !.file = DictFile(RefDList \o
        <<[gauging_station_name |-> Taldena, current_water_level |-> Some(0),
           previous_water_level |-> None, remarks |-> Some(<<>>)]>>)]

RecoverInit ==
    /\ calc = CalcIdle
    /\ norm = NormIdle
    /\ req = ReqIdle
    /\ up \in DownWorlds \cup {RefWorld}
    /\ cache = EmptyDict
    /\ now = 0
    /\ tasks = <<TaskIdle>>

\* the resource that was down answers again
Recover ==
    /\ up \in DownWorlds
    /\ up' = RefWorld
    /\ UNCHANGED <<calc, norm, req, cache, now, tasks>>

\* the primary repository publishes a file with one more station
Publish ==
    /\ up = RefWorld
    /\ up' = TwoStationWorld
    /\ UNCHANGED <<calc, norm, req, cache, now, tasks>>

RecoverNext ==
    \/ Begin
    \/ Resume
    \/ Respond
    \/ Tick
    \/ Recover
    \/ Publish

SpecRecover == RecoverInit /\ [][RecoverNext]_vars

(***************************************************************************)
(* The merge on the trend of a station: one entry of the primary feed      *)
(* with every pair of current and previous level, with or without the      *)
(* rising_or_falling key, with or without a fresher reading of the         *)
(* station in the irrigation feed.                                         *)
(***************************************************************************)
TrendLevels == {None} \cup {Some(l) : l \in 0..LevelBound}

TrendInit ==
    /\ calc = CalcIdle
    /\ norm = NormIdle
    /\ req = ReqIdle
    /\ cache = CacheIdle
    /\ now = 0
    /\ tasks = TasksIdle
    /\ \E cur \in TrendLevels, prev \in TrendLevels :
       \E r \in {<<>>, <<[station_name |-> NagalagamStreet, time_ut |-> MaxTimeUt,
                          water_level_m |-> Some(1)]>>} :
          \/ up = [RefWorld EXCEPT
                      !.file = DictFile(<<[gauging_station_name |-> NagalagamStreet,
                                           current_water_level |-> cur,
                                           previous_water_level |-> prev,
                                           remarks |-> Some(<<>>)]>>),
                      !.irr_latest = OkResp(r)]
          \/ \E s \in {"Rising", "Falling"} :
                up = [RefWorld EXCEPT
                         !.file = DictFile(<<[gauging_station_name |-> NagalagamStreet,
                                              current_water_level |-> cur,
                                              previous_water_level |-> prev,
                                              remarks |-> Some(<<>>),
                                              rising_or_falling |-> s]>>),
                         !.irr_latest = OkResp(r)]

TrendNext ==
    \/ GetLatestWaterLevels
    \/ GetActiveAlerts

SpecTrend == TrendInit /\ [][TrendNext]_vars

(***************************************************************************)
(* The resolver on every directory listing of at most MaxFiles entries:    *)
(* two dated water-level files, a name that is the suffix alone, and a     *)
(* file of another kind that sorts after all of them.                      *)
(***************************************************************************)
MaxFiles == 3

ResolveInit ==
    /\ calc = CalcIdle
    /\ norm = NormIdle
    /\ req = ReqIdle
    /\ cache = CacheIdle
    /\ now = 0
    /\ tasks = TasksIdle
    /\ \E l \in SeqsUpTo({[name |-> n] : n \in {File1, File2, Readme, WaterLevelSuffix}},
                         MaxFiles) :
          up = [RefWorld EXCEPT !.listing = OkResp(l)]

ResolveNext ==
    \/ GetLatestWaterLevelFilename
    \/ GetLatestWaterLevels

SpecResolve == ResolveInit /\ [][ResolveNext]_vars

(***************************************************************************)
(* The cache model under concurrency: two inbound requests are in flight   *)
(* in the one event loop, interleaved at their network requests, with no   *)
(* lock around the lookups and the insertions.  The clock stands still,    *)
(* so that every miss is the miss of a key not yet populated, and the      *)
(* primary repository may publish a new file between any two steps.        *)
(***************************************************************************)
RaceInit ==
    /\ calc = CalcIdle
    /\ norm = NormIdle
    /\ req = ReqIdle
    /\ up = RefWorld
    /\ cache = EmptyDict
    /\ now = 0
    /\ tasks = <<TaskIdle, TaskIdle>>

RaceNext ==
    \/ Begin
    \/ Resume
    \/ Respond
    \/ Publish

SpecRace == RaceInit /\ [][RaceNext]_vars

(***************************************************************************)
(* Properties.                                                             *)
(***************************************************************************)
AlertLevels == {"NORMAL", "ALERT", "MINOR", "MAJOR", "NO_DATA"}

\* the primary feed was read: the listing names a water-level file and the
\* file is a JSON document
PrimaryFeedRead ==
    /\ up.listing.kind = "ok"
    /\ \E i \in 1..Len(up.listing.body) :
          EndsWith(up.listing.body[i].name, WaterLevelSuffix)
    /\ up.file.kind = "ok"

PrimaryFeed == DList(up.file.body)

LevelsServed ==
    /\ req.pc = "done"
    /\ req.op = "get_latest_water_levels"
    /\ ~req.raised
    /\ PrimaryFeedRead

\* the timestamp of the latest file of the listing, File2
File2Timestamp == <<"2","0","2","5","-","1","2","-","0","2"," ","0","9",":","0","0",":","0","0">>

\* A read event met an entry still within its time to live, or past it.
Fresh(e) == e.entry # None /\ e.at < e.entry[1].time + TTL
Expired(e) == e.entry # None /\ e.at >= e.entry[1].time + TTL

StoredKeys(t) == {t.stored[k].key : k \in 1..Len(t.stored)}

\* the task issued no upstream request on behalf of the key of a read
NoRequestFor(t, e) ==
    IF e.key \in DirectKeys
    THEN \A k \in 1..Len(t.sent) : t.sent[k] # Resource(e.key)
    ELSE t.sent = <<>>

Returned(t) == t.pc = "done" /\ ~t.raised

\* C1 as claimed: a read within the time to live of the entry returns its
\* value with no upstream request; an operation that read its key past the
\* time to live has fetched from upstream and stored the key again.
C1_ExpiredReadRefetches ==
    \A i \in DOMAIN tasks : \A k \in 1..Len(tasks[i].reads) :
      LET t == tasks[i]
          e == t.reads[k]
      IN  /\ Fresh(e) =>
                e.hit /\ e.value = Some(e.entry[1].value) /\ NoRequestFor(t, e)
          /\ (Expired(e) /\ Returned(t)) =>
                t.sent # <<>> /\ e.key \in StoredKeys(t)

\* C1 amended: a read hits exactly while clock < t0 + ttl of the entry it
\* meets, and then returns the entry's value with no upstream request.  A
\* read that misses re-runs the operation of the key: a directly fetching
\* key requests its resource and stores the result; latest_water_levels is
\* stored only when the listing named a file and the file held data, and
\* otherwise [] is returned and nothing is stored; a derived key stores the
\* derivation from what get_latest_water_levels returned, with no upstream
\* request when that was itself a hit.
C1_TtlPerKey ==
    \A i \in DOMAIN tasks : \A k \in 1..Len(tasks[i].reads) :
      LET t == tasks[i]
          e == t.reads[k]
          stores(key, value) ==
              \E j \in 1..Len(t.stored) :
                 /\ t.stored[j].key = key
                 /\ t.stored[j].value = value
                 /\ t.stored[j].at >= e.at
                 /\ key \in DOMAIN cache =>
                       cache[key] = [value |-> value, time |-> t.stored[j].at]
      IN  /\ e.hit <=> Fresh(e)
          /\ e.hit => e.value = Some(e.entry[1].value) /\ NoRequestFor(t, e)
          /\ (e.hit /\ e.key = t.op /\ Returned(t)) => t.value = e.entry[1].value
          /\ (~e.hit /\ e.key \in DirectKeys) =>
                /\ \E j \in 1..Len(t.sent) : t.sent[j] = Resource(e.key)
                /\ Returned(t) => e.key \in StoredKeys(t)
          /\ (~e.hit /\ e.key = LevelsKey /\ Returned(t)) =>
                IF /\ t.filename # None /\ t.filename[1] # <<>>
                   /\ t.data # None /\ ~Falsy(t.data[1])
                THEN stores(LevelsKey, t.levels[1])
                ELSE LevelsKey \notin StoredKeys(t) /\ t.levels = Some(<<>>)
          /\ (~e.hit /\ e.key \in DerivedKeys /\ Returned(t)) =>
                /\ stores(e.key, Derive(e.key, t.levels[1]))
                /\ t.value = Derive(e.key, t.levels[1])

\* gauging_stations is read past its time to live while latest_water_levels
\* is within its own: the stations are derived again with no upstream request
C1_Witness ==
    \E i \in DOMAIN tasks :
       LET t == tasks[i]
       IN  /\ Returned(t)
           /\ t.op = "gauging_stations"
           /\ Len(t.reads) = 2
           /\ Expired(t.reads[1]) /\ ~t.reads[1].hit
           /\ t.reads[1].at = t.reads[1].entry[1].time + TTL
           /\ Fresh(t.reads[2]) /\ t.reads[2].hit
           /\ t.sent = <<>>
           /\ "gauging_stations" \in StoredKeys(t)
           /\ t.value # <<>>

\* C2: whatever the upstream answers, no core read operation raises.
C2_NoFailureEscapes ==
    (req.pc = "done" /\ req.op # "get_active_alerts") => ~req.raised

\* The readings of the fresher feed, and the index of the reading that counts
\* for a station: the greatest time_ut, the first of them on a tie.
FresherReadings ==
    IF up.irr_latest.kind = "ok" THEN up.irr_latest.body ELSE <<>>

IsLatestReading(j, name) ==
    /\ FresherReadings[j].station_name = name
    /\ \A k \in 1..Len(FresherReadings) :
          FresherReadings[k].station_name = name =>
             \/ FresherReadings[k].time_ut < FresherReadings[j].time_ut
             \/ FresherReadings[k].time_ut = FresherReadings[j].time_ut /\ k >= j

C5_AlertStatusLadder ==
    calc.pc = "done" =>
      LET l == calc.water_level
          st == calc.station
          reached(k) == k \in DOMAIN st /\ l[1] >= st[k]
      IN  /\ l = None => calc.alert_status = "NO_DATA"
          /\ l # None =>
               /\ reached("major_flood_level") => calc.alert_status = "MAJOR"
               /\ (~reached("major_flood_level") /\ reached("minor_flood_level"))
                     => calc.alert_status = "MINOR"
               /\ (~reached("major_flood_level") /\ ~reached("minor_flood_level")
                     /\ reached("alert_level")) => calc.alert_status = "ALERT"
               /\ (~reached("major_flood_level") /\ ~reached("minor_flood_level")
                     /\ ~reached("alert_level")) => calc.alert_status = "NORMAL"
               /\ (/\ DOMAIN st = ThresholdKeys
                   /\ st["alert_level"] <= st["minor_flood_level"]
                   /\ st["minor_flood_level"] <= st["major_flood_level"]
                   /\ l[1] = st["major_flood_level"]) => calc.alert_status = "MAJOR"

C5_Witness ==
    /\ calc.pc = "done"
    /\ calc.water_level = Some(1)
    /\ calc.station = [alert_level |-> 0, minor_flood_level |-> 1, major_flood_level |-> 1]
    /\ calc.alert_status = "MAJOR"

\* C6 as claimed: the flood score of a record is absent without a level or
\* when major <= alert, and (level - alert) / (major - alert) otherwise.
C6_FloodScoreIsCalculator ==
    LevelsServed =>
      \A i \in 1..Len(req.value) :
        LET rec == req.value[i]
        IN  rec.flood_score =
              IF rec.water_level = None \/ rec.major_flood_level <= rec.alert_level
              THEN None
              ELSE <<rec.water_level[1] - rec.alert_level,
                     rec.major_flood_level - rec.alert_level>>

\* C6 amended: the flood score of a record is absent without a level, when
\* alert_level <= 0 or when major <= alert, and otherwise the fraction
\* (level - alert) / (major - alert): 0 at level = alert, 1 at level = major.
C6_FloodScoreGuarded ==
    LevelsServed =>
      \A i \in 1..Len(req.value) :
        LET rec == req.value[i]
        IN  IF \/ rec.water_level = None
               \/ rec.alert_level <= 0
               \/ rec.major_flood_level <= rec.alert_level
            THEN rec.flood_score = None
            ELSE /\ rec.flood_score = <<rec.water_level[1] - rec.alert_level,
                                        rec.major_flood_level - rec.alert_level>>
                 /\ rec.water_level[1] = rec.alert_level => rec.flood_score[1] = 0
                 /\ rec.water_level[1] = rec.major_flood_level =>
                       rec.flood_score[1] = rec.flood_score[2]

C6_Witness ==
    /\ LevelsServed
    /\ \E i \in 1..Len(req.value) :
          /\ req.value[i].water_level = Some(req.value[i].major_flood_level)
          /\ req.value[i].alert_level = 1
          /\ req.value[i].flood_score = <<1, 1>>

\* C7: a primary feed that was read yields one record per entry, in order,
\* under the feed's spelling; an entry no static source knows has
\* coordinates [0, 0], thresholds 0 and the status of the remarks heuristic.
Unmatched(name) ==
    /\ \/ up.irr_static.kind # "ok"
       \/ \A k \in 1..Len(up.irr_static.body) : up.irr_static.body[k].name # name
    /\ \/ up.dmc_static.kind # "ok"
       \/ \A k \in 1..Len(up.dmc_static.body) :
             normalize_station_name(up.dmc_static.body[k].name)
                # normalize_station_name(name)

C7_OneRecordPerEntry ==
    (req.pc = "done" /\ req.op = "get_latest_water_levels" /\ PrimaryFeedRead) =>
      /\ ~req.raised
      /\ Len(req.value) = Len(PrimaryFeed)
      /\ \A i \in 1..Len(PrimaryFeed) :
           LET rec == req.value[i]
               words == PrimaryFeed[i].remarks[1]
           IN  /\ rec.station_name = PrimaryFeed[i].gauging_station_name
               /\ Unmatched(rec.station_name) =>
                    /\ rec.lat_lng = <<0, 0>>
                    /\ rec.alert_level = 0
                    /\ rec.minor_flood_level = 0
                    /\ rec.major_flood_level = 0
                    /\ rec.alert_status =
                         IF Contains(words, MajorFloodText) THEN "MAJOR"
                         ELSE IF Contains(words, MinorFloodText) THEN "MINOR"
                         ELSE IF Contains(words, AlertText) THEN "ALERT"
                         ELSE IF rec.water_level # None THEN "NORMAL"
                         ELSE "NO_DATA"

\* C8: normalize_station_name is idempotent.
C8_NormalizeIdempotent ==
    norm.pc = "done" => norm.nnx = norm.nx

C8_Witness ==
    /\ norm.pc = "done"
    /\ norm.x = NagalagamStreet
    /\ norm.nx = <<"n","s","t","r","e","e","t">>
    /\ norm.nnx = norm.nx

\* C9 as claimed: two names that differ only in letter case, spaces,
\* apostrophes and parentheses normalize to the same key.
C9_NormalizeInsensitive ==
    norm.pc = "done" => norm.nx = norm.ny

\* C9 amended: two such names, neither of them a key of the alias table in
\* its exact spelling, normalize to the same key.
C9_NormalizeInsensitiveOffKeys ==
    (/\ norm.pc = "done"
     /\ norm.x \notin DOMAIN STATION_NAME_MAP
     /\ norm.y \notin DOMAIN STATION_NAME_MAP) => norm.nx = norm.ny

C9_Witness ==
    /\ norm.pc = "done"
    /\ norm.x = NStreet
    /\ norm.y = Lower(NStreet)
    /\ norm.nx = <<"n","s","t","r","e","e","t">>
    /\ norm.ny = norm.nx

\* C10: GET /alerts holds every station whose record of
\* get_latest_water_levels is ALERT, MINOR or MAJOR with a level at or above
\* its alert threshold, and no station whose record is NORMAL or NO_DATA.
C10_AlertsListed ==
    (req.pc = "done" /\ req.op = "get_active_alerts" /\ ~req.raised) =>
      LET levels == get_latest_water_levels(up).value
          listed(name) == \E a \in 1..Len(req.value) : req.value[a].station_name = name
      IN  \A i \in 1..Len(levels) :
            /\ (/\ levels[i].station_name # <<>>
                /\ levels[i].water_level # None
                /\ levels[i].alert_level > 0
                /\ levels[i].water_level[1] >= levels[i].alert_level)
                  => listed(levels[i].station_name)
            /\ levels[i].alert_status \in {"NORMAL", "NO_DATA"}
                  => ~listed(levels[i].station_name)

\* The resources whose result the cached wrapper stores, and the key of each.
CachedStages == {Resource(k) : k \in DirectKeys}
KeyOf(stage) == CHOOSE k \in DirectKeys : Resource(k) = stage

\* C11: a call requests each resource at most once, and when the listing, a
\* static fetch or the irrigation fetch of a call fails, the key is not
\* served from the cache afterwards: the next call requests it again.
C11_FailedFetchRetried ==
    [][\A i \in DOMAIN tasks :
         /\ \A a, b \in 1..Len(tasks'[i].sent) :
               tasks'[i].sent[a] = tasks'[i].sent[b] => a = b
         /\ (/\ tasks[i].pc = "await"
             /\ tasks'[i] # tasks[i]
             /\ tasks[i].stage \in CachedStages
             /\ up[tasks[i].stage].kind \in HttpErrorKinds)
               => ~CacheHas(cache', KeyOf(tasks[i].stage), now')]_vars

\* C12: whenever a derived collection and the station snapshot are both
\* served from the cache, so that get_rivers, get_river_basins,
\* get_gauging_stations and get_latest_water_levels return them at that
\* moment, the collection is the derivation from that snapshot.
C12_DerivedNeverStale ==
    \A k \in DerivedKeys :
       (CacheHas(cache, k, now) /\ CacheHas(cache, LevelsKey, now))
          => cache[k].value = Derive(k, cache[LevelsKey].value)

\* What one execution of an operation returns, run alone from an empty cache
\* against either state of the upstream.
SoloLevels == {get_latest_water_levels(w).value : w \in {RefWorld, TwoStationWorld}}
CompleteResults(op) ==
    {IF op = LevelsKey THEN levels ELSE Derive(op, levels) : levels \in SoloLevels}

\* the key whose miss leads to the request of a resource
MissedKeyOf(stage) == IF stage = "file" THEN LevelsKey ELSE KeyOf(stage)

\* C13: under every interleaving of two requests, each value in the cache
\* under an operation's key and each value returned is the complete result
\* of one execution of that operation, what a task stores under an
\* operation's key is its own result, and a task requests a resource at
\* most once and only after it observed the miss of the resource's key: the
\* requests for one miss are at most the callers that observed it.
C13_RacesHarmless ==
    /\ \A k \in DOMAIN cache \cap Ops : cache[k].value \in CompleteResults(k)
    /\ \A i \in DOMAIN tasks :
          LET t == tasks[i]
          IN  /\ t.pc = "done" => (~t.raised /\ t.value \in CompleteResults(t.op))
              /\ \A a \in 1..Len(t.stored) :
                    /\ t.stored[a].key = LevelsKey
                          => t.levels = Some(t.stored[a].value)
                    /\ t.stored[a].key \in DerivedKeys
                          => (t.stored[a].key = t.op /\ t.value = t.stored[a].value)
              /\ \A a, b \in 1..Len(t.sent) : t.sent[a] = t.sent[b] => a = b
              /\ \A a \in 1..Len(t.sent) :
                    \E b \in 1..Len(t.reads) :
                       t.reads[b].key = MissedKeyOf(t.sent[a]) /\ ~t.reads[b].hit

\* C13 happens: both requests observed the miss of the snapshot, both
\* fetched the listing and the primary file, and both stored their result.
C13_Witness ==
    /\ \A i \in DOMAIN tasks :
          /\ tasks[i].pc = "done"
          /\ \E a, b \in 1..Len(tasks[i].sent) :
                tasks[i].sent[a] = "listing" /\ tasks[i].sent[b] = "file"
          /\ LevelsKey \in StoredKeys(tasks[i])
    /\ Len(tasks) = 2

\* C14: the rising_or_falling of a record is the explicit trend of its
\* primary entry when there is one; otherwise it is Rising when the primary
\* current level exceeds the previous one, Falling when it is below, and
\* unset when they are equal or one is missing, whatever the fresher feed
\* says.
C14_TrendDerived ==
    (req.pc = "done" /\ req.op = "get_latest_water_levels" /\ ~req.raised
       /\ Len(req.value) = 1 /\ Len(PrimaryFeed) = 1)
      => LET item == PrimaryFeed[1]
             cur == Get(item, "current_water_level", None)
             prev == Get(item, "previous_water_level", None)
         IN  req.value[1].rising_or_falling =
                IF "rising_or_falling" \in DOMAIN item THEN item.rising_or_falling
                ELSE IF cur = None \/ prev = None THEN ""
                ELSE IF cur[1] > prev[1] THEN "Rising"
                ELSE IF cur[1] < prev[1] THEN "Falling"
                ELSE ""

\* the entries of a feed whose name normalizes to the same key as `name`
SameStation(feed, field, name) ==
    {j \in 1..Len(feed) :
        normalize_station_name(feed[j][field]) = normalize_station_name(name)}

IrrStaticFeed == IF up.irr_static.kind = "ok" THEN up.irr_static.body ELSE <<>>
DmcStaticFeed == IF up.dmc_static.kind = "ok" THEN up.dmc_static.body ELSE <<>>

\* C15: each record joins the three other feeds on the normalized station
\* name: its level is a fresher reading exactly when a reading with a level
\* has the same normalized name, its coordinates are those of an irrigation
\* static entry when one has the same normalized name, and otherwise those
\* of a DMC static entry exactly when one has the same normalized name.
C15_JoinsOnNormalizedNames ==
    LevelsServed =>
      \A i \in 1..Len(req.value) :
        LET name == PrimaryFeed[i].gauging_station_name
            rec == req.value[i]
            readings == {j \in SameStation(FresherReadings, "station_name", name) :
                            FresherReadings[j].water_level_m # None}
            irr == SameStation(IrrStaticFeed, "name", name)
            dmc == SameStation(DmcStaticFeed, "name", name)
        IN  /\ IF readings # {}
               THEN \E j \in readings : rec.water_level = FresherReadings[j].water_level_m
               ELSE rec.water_level = PrimaryFeed[i].current_water_level
            /\ IF irr # {} THEN \E j \in irr : rec.lat_lng = IrrStaticFeed[j].lat_lng
               ELSE IF dmc # {} THEN \E j \in dmc : rec.lat_lng = DmcStaticFeed[j].lat_lng
               ELSE rec.lat_lng = <<0, 0>>

\* the irrigation static entries under exactly the primary spelling of `name`
IrrEntries(name) == {j \in 1..Len(IrrStaticFeed) : IrrStaticFeed[j].name = name}

\* the static fields a record takes from a DMC static entry
FromDmc(rec, e) ==
    /\ rec.lat_lng = e.lat_lng
    /\ rec.river_name = e.river_name
    /\ rec.alert_level = e.alert_level
    /\ rec.minor_flood_level = e.minor_flood_level
    /\ rec.major_flood_level = e.major_flood_level

\* the coordinates and thresholds a record takes from an irrigation entry
FromIrr(rec, e) ==
    /\ rec.lat_lng = e.lat_lng
    /\ rec.alert_level = e.alert_level_m
    /\ rec.minor_flood_level = e.minor_flood_level_m
    /\ rec.major_flood_level = e.major_flood_level_m

Matching ==
    {up.listing.body[i].name : i \in 1..Len(up.listing.body)}
       \cap {n \in {File1, File2, Readme, WaterLevelSuffix} : EndsWith(n, WaterLevelSuffix)}

\* C17: get_latest_water_level_filename returns, without raising, the
\* greatest name of the listing that ends with the water-level suffix, and
\* None when no name does; get_latest_water_levels does not raise either
\* and then returns the empty list.
C17_ResolverPicksGreatest ==
    /\ (req.pc = "done" /\ req.op = "get_latest_water_level_filename")
          => /\ ~req.raised
             /\ IF Matching = {} THEN req.value = None
                ELSE /\ req.value # None
                     /\ req.value[1] \in Matching
                     /\ \A n \in Matching : ~StrLess(req.value[1], n)
    /\ (req.pc = "done" /\ req.op = "get_latest_water_levels")
          => /\ ~req.raised
             /\ Matching = {} => req.value = <<>>

\* C17 happens: the listing names the older file first, then a file of
\* another kind that sorts last, then the newer file, which is returned.
C17_Witness ==
    /\ req.pc = "done"
    /\ req.op = "get_latest_water_level_filename"
    /\ up.listing.body = <<[name |-> File1], [name |-> Readme], [name |-> File2]>>
    /\ req.value = Some(File2)


====
